---- MODULE Spec2Model ----
(***************************************************************************)
(* Model of valinternal/tx_ops_preparation.go: prepareTxOps populates a    *)
(* per-transaction key-operation map from the transaction's write set and  *)
(* then resolves every entry against the preceding updates of the block    *)
(* and the persisted state.                                                *)
(*                                                                         *)
(* Byte strings are modelled as strings; NilBytes is Go's nil []byte.      *)
(* string(keyHash) and []byte(key) preserve the bytes, so a hashed key is  *)
(* the same token on both sides of the conversion.                         *)
(***************************************************************************)
EXTENDS Integers, Sequences, FiniteSets, TLC

VARIABLES rwset, precedingUpdates, db, txops, pending, pc, result, lookups

vars == <<rwset, precedingUpdates, db, txops, pending, pc, result, lookups>>

(* ---------------------------- bounds ----------------------------------- *)

\* total number of write records (of all four kinds) in a write set
MaxWrites == 2

Namespaces == {"ns1"}
Collections == {"coll1"}
Keys == {"k"}
Values == {"v1", "v2"}

NilBytes == "<nil>"
NoErr == "<nil>"
StorageError == "StorageError"
EncodingError == "EncodingError"

\* metadata entries of a metadata write: NilEntries is Entries == nil,
\* BadEntries is a list of entries the codec fails to serialize
NilEntries == "<nil>"
BadEntries == "bad"
EntriesSet == {NilEntries, "e1", BadEntries}

(* ------------------------ collaborators -------------------------------- *)

\* statedb.VersionedValue behind a pointer; isNil is the nil pointer
NilVV == [isNil |-> TRUE, Value |-> NilBytes, Metadata |-> NilBytes]

VersionedValues ==
    { [isNil |-> FALSE, Value |-> "x1", Metadata |-> "m1"],
      [isNil |-> FALSE, Value |-> "x2", Metadata |-> NilBytes] }

VVOpt == VersionedValues \cup {NilVV}

\* what a read of the persisted state returns: (vv, err)
DbResponses ==
    { [vv |-> v, err |-> NoErr] : v \in VVOpt }
      \cup { [vv |-> NilVV, err |-> StorageError] }

\* storageutil.SerializeMetadata(entries) -> (bytes, err)
SerializeMetadata(entries) ==
    IF entries = BadEntries
    THEN [bytes |-> NilBytes, err |-> EncodingError]
    ELSE [bytes |-> "ser(" \o entries \o ")", err |-> NoErr]

(* ----------------------- key-operation map ----------------------------- *)

compositeKey(ns, coll, key) == <<ns, coll, key>>

newKeyOps == [flag |-> {}, value |-> NilBytes, metadata |-> NilBytes]

getOrCreateKeyEntry(ops, k) == IF k \in DOMAIN ops THEN ops[k] ELSE newKeyOps

setEntry(ops, k, keyops) ==
    [c \in DOMAIN ops \cup {k} |-> IF c = k THEN keyops ELSE ops[c]]

upsert(ops, k, val) ==
    LET keyops == getOrCreateKeyEntry(ops, k)
    IN  setEntry(ops, k, [keyops EXCEPT
                            !.flag = (@ \ {"keyDelete"}) \cup {"upsertVal"},
                            !.value = val])

delete(ops, k) ==
    setEntry(ops, k, [flag |-> {"keyDelete"}, value |-> NilBytes,
                      metadata |-> NilBytes])

metadataUpdate(ops, k, metadata) ==
    LET keyops == getOrCreateKeyEntry(ops, k)
    IN  setEntry(ops, k, [keyops EXCEPT
                            !.flag = (@ \ {"metadataDelete"}) \cup {"metadataUpdate"},
                            !.metadata = metadata])

metadataDelete(ops, k) ==
    LET keyops == getOrCreateKeyEntry(ops, k)
    IN  setEntry(ops, k, [keyops EXCEPT
                            !.flag = (@ \ {"metadataUpdate"}) \cup {"metadataDelete"},
                            !.metadata = NilBytes])

isDelete(keyops) == "keyDelete" \in keyops.flag

isUpsertAndMetadataUpdate(keyops) ==
    /\ "upsertVal" \in keyops.flag
    /\ keyops.flag \cap {"metadataUpdate", "metadataDelete"} # {}

isOnlyUpsert(keyops) == keyops.flag = {"upsertVal"}

(* ------------------------ write-set applier ---------------------------- *)

\* txOps.applyKVWrite
applyKVWrite(ops, ns, coll, kvWrite) ==
    IF kvWrite.IsDelete
    THEN delete(ops, compositeKey(ns, coll, kvWrite.Key))
    ELSE upsert(ops, compositeKey(ns, coll, kvWrite.Key), kvWrite.Value)

\* txOps.applyMetadata: returns the map and the error
applyMetadata(ops, ns, coll, metadataWrite) ==
    IF metadataWrite.Entries = NilEntries
    THEN [ops |-> metadataDelete(ops, compositeKey(ns, coll, metadataWrite.Key)),
          err |-> NoErr]
    ELSE LET ser == SerializeMetadata(metadataWrite.Entries)
         IN  IF ser.err # NoErr
             THEN [ops |-> ops, err |-> ser.err]
             ELSE [ops |-> metadataUpdate(ops,
                              compositeKey(ns, coll, metadataWrite.Key), ser.bytes),
                   err |-> NoErr]

RECURSIVE applyKVWrites(_, _, _, _)
applyKVWrites(ops, ns, coll, writes) ==
    IF writes = <<>> THEN ops
    ELSE applyKVWrites(applyKVWrite(ops, ns, coll, Head(writes)),
                       ns, coll, Tail(writes))

\* the error applyMetadata returns is not looked at by the loops of applyTxRwset
RECURSIVE applyMetadataWrites(_, _, _, _)
applyMetadataWrites(ops, ns, coll, mdWrites) ==
    IF mdWrites = <<>> THEN ops
    ELSE applyMetadataWrites(applyMetadata(ops, ns, coll, Head(mdWrites)).ops,
                             ns, coll, Tail(mdWrites))

RECURSIVE applyCollHashedRwSets(_, _, _)
applyCollHashedRwSets(ops, ns, collSets) ==
    IF collSets = <<>> THEN ops
    ELSE LET collHashRWset == Head(collSets)
             coll == collHashRWset.CollectionName
             afterWrites ==
                 applyKVWrites(ops, ns, coll,
                     [i \in 1..Len(collHashRWset.HashedRwSet.HashedWrites) |->
                        LET hashedWrite == collHashRWset.HashedRwSet.HashedWrites[i]
                        IN  [Key |-> hashedWrite.KeyHash,
                             Value |-> hashedWrite.ValueHash,
                             IsDelete |-> hashedWrite.IsDelete]])
             afterMd ==
                 applyMetadataWrites(afterWrites, ns, coll,
                     [i \in 1..Len(collHashRWset.HashedRwSet.MetadataWrites) |->
                        LET metadataWrite == collHashRWset.HashedRwSet.MetadataWrites[i]
                        IN  [Key |-> metadataWrite.KeyHash,
                             Entries |-> metadataWrite.Entries]])
         IN  applyCollHashedRwSets(afterMd, ns, Tail(collSets))

RECURSIVE applyNsRwSets(_, _)
applyNsRwSets(ops, nsRwSets) ==
    IF nsRwSets = <<>> THEN ops
    ELSE LET nsRWSet == Head(nsRwSets)
             ns == nsRWSet.NameSpace
             afterWrites == applyKVWrites(ops, ns, "", nsRWSet.KvRwSet.Writes)
             afterMd == applyMetadataWrites(afterWrites, ns, "",
                                            nsRWSet.KvRwSet.MetadataWrites)
             afterColl == applyCollHashedRwSets(afterMd, ns,
                                                nsRWSet.CollHashedRwSets)
         IN  applyNsRwSets(afterColl, Tail(nsRwSets))

\* txOps.applyTxRwset: always returns a nil error
applyTxRwset(ops, rw) == [ops |-> applyNsRwSets(ops, rw.NsRwSets), err |-> NoErr]

(* --------------------------- resolver ---------------------------------- *)

\* retrieveLatestState reading the persisted state first
retrieveLatestState_dbFirst(ns, coll, key, pu, d) ==
    LET r == IF coll = "" THEN d.State[<<ns, key>>]
             ELSE d.ValueHash[<<ns, coll, key>>]
        p == IF coll = "" THEN pu.PubUpdates[<<ns, key>>]
             ELSE pu.HashUpdates[<<ns, coll, key>>]
        dbCall == IF coll = "" THEN <<"GetState", ns, coll, key>>
                  ELSE <<"GetValueHash", ns, coll, key>>
        puCall == IF coll = "" THEN <<"PubUpdates.Get", ns, coll, key>>
                  ELSE <<"HashUpdates.Get", ns, coll, key>>
    IN  IF r.err = NoErr /\ r.vv.isNil
        THEN [vv |-> p, err |-> NoErr, calls |-> {dbCall, puCall}]
        ELSE [vv |-> r.vv, err |-> r.err, calls |-> {dbCall}]

\* retrieveLatestState -> (vv, err), with the reads it performs
retrieveLatestState(ns, coll, key, pu, d) ==
    IF coll = ""
    THEN LET vv == pu.PubUpdates[<<ns, key>>]
         IN  IF vv.isNil
             THEN [vv |-> d.State[<<ns, key>>].vv,
                   err |-> d.State[<<ns, key>>].err,
                   calls |-> {<<"PubUpdates.Get", ns, coll, key>>,
                              <<"GetState", ns, coll, key>>}]
             ELSE [vv |-> vv, err |-> NoErr,
                   calls |-> {<<"PubUpdates.Get", ns, coll, key>>}]
    ELSE LET vv == pu.HashUpdates[<<ns, coll, key>>]
         IN  IF vv.isNil
             THEN [vv |-> d.ValueHash[<<ns, coll, key>>].vv,
                   err |-> d.ValueHash[<<ns, coll, key>>].err,
                   calls |-> {<<"HashUpdates.Get", ns, coll, key>>,
                              <<"GetValueHash", ns, coll, key>>}]
             ELSE [vv |-> vv, err |-> NoErr,
                   calls |-> {<<"HashUpdates.Get", ns, coll, key>>}]

\* the check of line 26 without its isDelete() half
skipsResolution_noDelete(keyop) == isUpsertAndMetadataUpdate(keyop)

\* the check of line 26
skipsResolution(keyop) == isDelete(keyop) \/ isUpsertAndMetadataUpdate(keyop)

\* lines 36-41 removing the entry of a key no source holds
mergeOnlyUpsert_dropAbsent(ops, ck, latestVal) ==
    IF ~latestVal.isNil
    THEN [ops EXCEPT ![ck].metadata = latestVal.Metadata]
    ELSE [c \in DOMAIN ops \ {ck} |-> ops[c]]

\* lines 36-41: only the value is written by the transaction
mergeOnlyUpsert(ops, ck, latestVal) ==
    IF ~latestVal.isNil
    THEN [ops EXCEPT ![ck].metadata = latestVal.Metadata]
    ELSE ops

\* lines 45-49 without the delete(txops, ck) of the else branch
mergeOnlyMetadata_keep(ops, ck, latestVal) ==
    IF ~latestVal.isNil
    THEN [ops EXCEPT ![ck].value = latestVal.Value]
    ELSE ops

\* lines 45-49 assigning the looked-up metadata instead of the value
mergeOnlyMetadata_metadata(ops, ck, latestVal) ==
    IF ~latestVal.isNil
    THEN [ops EXCEPT ![ck].metadata = latestVal.Metadata]
    ELSE [c \in DOMAIN ops \ {ck} |-> ops[c]]

\* lines 45-49: only the metadata is written by the transaction
mergeOnlyMetadata(ops, ck, latestVal) ==
    IF ~latestVal.isNil
    THEN [ops EXCEPT ![ck].value = latestVal.Value]
    ELSE [c \in DOMAIN ops \ {ck} |-> ops[c]]

NilResult == [isNil |-> TRUE, ops |-> <<>>, err |-> NoErr]

(* ----------------------------- inputs ---------------------------------- *)

SeqsUpTo(S, n) == UNION {[1..m -> S] : m \in 0..n}

KVWrites ==
    [Key : Keys, IsDelete : {FALSE}, Value : Values]
      \cup [Key : Keys, IsDelete : {TRUE}, Value : {NilBytes}]

KVMetadataWrites == [Key : Keys, Entries : EntriesSet]

KVWritesHash ==
    [KeyHash : Keys, IsDelete : {FALSE}, ValueHash : Values]
      \cup [KeyHash : Keys, IsDelete : {TRUE}, ValueHash : {NilBytes}]

KVMetadataWritesHash == [KeyHash : Keys, Entries : EntriesSet]

Init ==
    /\ \E ns \in Namespaces, coll \in Collections :
       \E w \in SeqsUpTo(KVWrites, MaxWrites) :
       \E m \in SeqsUpTo(KVMetadataWrites, MaxWrites - Len(w)) :
       \E hw \in SeqsUpTo(KVWritesHash, MaxWrites - Len(w) - Len(m)) :
       \E hm \in SeqsUpTo(KVMetadataWritesHash,
                          MaxWrites - Len(w) - Len(m) - Len(hw)) :
          rwset = [NsRwSets |->
                    << [NameSpace |-> ns,
                        KvRwSet |-> [Writes |-> w, MetadataWrites |-> m],
                        CollHashedRwSets |->
                          << [CollectionName |-> coll,
                              HashedRwSet |-> [HashedWrites |-> hw,
                                               MetadataWrites |-> hm]] >>] >>]
    /\ precedingUpdates \in
         [PubUpdates : [Namespaces \X Keys -> VVOpt],
          HashUpdates : [Namespaces \X Collections \X Keys -> VVOpt]]
    /\ db \in [State : [Namespaces \X Keys -> DbResponses],
               ValueHash : [Namespaces \X Collections \X Keys -> DbResponses]]
    /\ txops = <<>>
    /\ pending = {}
    /\ pc = "start"
    /\ result = NilResult
    /\ lookups = {}

(* ----------------------------- actions --------------------------------- *)

\* lines 20-21: txops := txOps{}; txops.applyTxRwset(rwset) (error dropped)
ApplyTxRwset ==
    /\ pc = "start"
    /\ txops' = applyTxRwset(<<>>, rwset).ops
    /\ pending' = DOMAIN txops'
    /\ pc' = "range"
    /\ UNCHANGED <<rwset, precedingUpdates, db, result, lookups>>

\* lines 26-28: one iteration that needs no lookup
RangeSkip ==
    /\ pc = "range"
    /\ \E ck \in pending :
         /\ skipsResolution(txops[ck])
         /\ pending' = pending \ {ck}
    /\ UNCHANGED <<rwset, precedingUpdates, db, txops, pc, result, lookups>>

\* lines 30-33 returning the map built so far with the error
RangeLookupError_partialMap ==
    /\ pc = "range"
    /\ \E ck \in pending :
         LET r == retrieveLatestState(ck[1], ck[2], ck[3], precedingUpdates, db)
         IN  /\ ~skipsResolution(txops[ck])
             /\ r.err # NoErr
             /\ lookups' = lookups \cup r.calls
             /\ result' = [isNil |-> FALSE, ops |-> txops, err |-> r.err]
             /\ pc' = "done"
             /\ pending' = {}
    /\ UNCHANGED <<rwset, precedingUpdates, db, txops>>

\* lines 30-33: one iteration whose lookup fails
RangeLookupError ==
    /\ pc = "range"
    /\ \E ck \in pending :
         LET r == retrieveLatestState(ck[1], ck[2], ck[3], precedingUpdates, db)
         IN  /\ ~skipsResolution(txops[ck])
             /\ r.err # NoErr
             /\ lookups' = lookups \cup r.calls
             /\ result' = [isNil |-> TRUE, ops |-> <<>>, err |-> r.err]
             /\ pc' = "done"
             /\ pending' = {}
    /\ UNCHANGED <<rwset, precedingUpdates, db, txops>>

\* lines 30-41: one iteration for an entry that only has a value
RangeOnlyUpsert ==
    /\ pc = "range"
    /\ \E ck \in pending :
         LET r == retrieveLatestState(ck[1], ck[2], ck[3], precedingUpdates, db)
         IN  /\ ~skipsResolution(txops[ck])
             /\ r.err = NoErr
             /\ isOnlyUpsert(txops[ck])
             /\ lookups' = lookups \cup r.calls
             /\ txops' = mergeOnlyUpsert(txops, ck, r.vv)
             /\ pending' = pending \ {ck}
    /\ UNCHANGED <<rwset, precedingUpdates, db, pc, result>>

\* lines 30-34, 43-49 with the traversal ending at a removal
RangeOnlyMetadata_removalEndsRange ==
    /\ pc = "range"
    /\ \E ck \in pending :
         LET r == retrieveLatestState(ck[1], ck[2], ck[3], precedingUpdates, db)
         IN  /\ ~skipsResolution(txops[ck])
             /\ r.err = NoErr
             /\ ~isOnlyUpsert(txops[ck])
             /\ lookups' = lookups \cup r.calls
             /\ txops' = mergeOnlyMetadata(txops, ck, r.vv)
             /\ pending' = IF r.vv.isNil THEN {} ELSE pending \ {ck}
    /\ UNCHANGED <<rwset, precedingUpdates, db, pc, result>>

\* lines 30-34, 43-49: one iteration for an entry that only has metadata
RangeOnlyMetadata ==
    /\ pc = "range"
    /\ \E ck \in pending :
         LET r == retrieveLatestState(ck[1], ck[2], ck[3], precedingUpdates, db)
         IN  /\ ~skipsResolution(txops[ck])
             /\ r.err = NoErr
             /\ ~isOnlyUpsert(txops[ck])
             /\ lookups' = lookups \cup r.calls
             /\ txops' = mergeOnlyMetadata(txops, ck, r.vv)
             /\ pending' = pending \ {ck}
    /\ UNCHANGED <<rwset, precedingUpdates, db, pc, result>>

\* line 52: return txops, nil
Return ==
    /\ pc = "range"
    /\ pending = {}
    /\ result' = [isNil |-> FALSE, ops |-> txops, err |-> NoErr]
    /\ pc' = "done"
    /\ UNCHANGED <<rwset, precedingUpdates, db, txops, pending, lookups>>

Next ==
    \/ ApplyTxRwset
    \/ RangeSkip
    \/ RangeLookupError
    \/ RangeOnlyUpsert
    \/ RangeOnlyMetadata
    \/ Return

Spec == Init /\ [][Next]_vars

(* --------------------- vocabulary of the properties -------------------- *)

AllCKs == (Namespaces \X {""} \X Keys) \cup (Namespaces \X Collections \X Keys)

RECURSIVE CollKV(_, _)
CollKV(collSets, ck) ==
    IF collSets = <<>> THEN <<>>
    ELSE LET c == Head(collSets)
             hws == c.HashedRwSet.HashedWrites
             mine == IF c.CollectionName = ck[2]
                     THEN SelectSeq([i \in 1..Len(hws) |->
                                       [Key |-> hws[i].KeyHash,
                                        IsDelete |-> hws[i].IsDelete,
                                        Value |-> hws[i].ValueHash]],
                                    LAMBDA w : w.Key = ck[3])
                     ELSE <<>>
         IN  mine \o CollKV(Tail(collSets), ck)

RECURSIVE CollMD(_, _)
CollMD(collSets, ck) ==
    IF collSets = <<>> THEN <<>>
    ELSE LET c == Head(collSets)
             mws == c.HashedRwSet.MetadataWrites
             mine == IF c.CollectionName = ck[2]
                     THEN SelectSeq([i \in 1..Len(mws) |->
                                       [Key |-> mws[i].KeyHash,
                                        Entries |-> mws[i].Entries]],
                                    LAMBDA w : w.Key = ck[3])
                     ELSE <<>>
         IN  mine \o CollMD(Tail(collSets), ck)

\* the key writes of the write set that address ck, in the order of the write set
RECURSIVE FlatKV(_, _)
FlatKV(nsRwSets, ck) ==
    IF nsRwSets = <<>> THEN <<>>
    ELSE LET n == Head(nsRwSets)
             mine == IF n.NameSpace # ck[1] THEN <<>>
                     ELSE IF ck[2] = ""
                          THEN SelectSeq(n.KvRwSet.Writes, LAMBDA w : w.Key = ck[3])
                          ELSE CollKV(n.CollHashedRwSets, ck)
         IN  mine \o FlatKV(Tail(nsRwSets), ck)

\* the metadata writes of the write set that address ck, in order
RECURSIVE FlatMD(_, _)
FlatMD(nsRwSets, ck) ==
    IF nsRwSets = <<>> THEN <<>>
    ELSE LET n == Head(nsRwSets)
             mine == IF n.NameSpace # ck[1] THEN <<>>
                     ELSE IF ck[2] = ""
                          THEN SelectSeq(n.KvRwSet.MetadataWrites,
                                         LAMBDA w : w.Key = ck[3])
                          ELSE CollMD(n.CollHashedRwSets, ck)
         IN  mine \o FlatMD(Tail(nsRwSets), ck)

KVOf(ck) == FlatKV(rwset.NsRwSets, ck)
MDOf(ck) == FlatMD(rwset.NsRwSets, ck)

WritesValue(ck) == \E i \in 1..Len(KVOf(ck)) : ~KVOf(ck)[i].IsDelete
WritesDelete(ck) == \E i \in 1..Len(KVOf(ck)) : KVOf(ck)[i].IsDelete
WritesMetadata(ck) == MDOf(ck) # <<>>

\* the value of the transaction's last key write for ck
TxValue(ck) == KVOf(ck)[Len(KVOf(ck))].Value

\* the metadata of the transaction's last metadata write for ck
TxMetadata(ck) ==
    LET e == MDOf(ck)[Len(MDOf(ck))].Entries
    IN  IF e = NilEntries THEN NilBytes ELSE SerializeMetadata(e).bytes

SerializationFails ==
    \E ck \in AllCKs : \E i \in 1..Len(MDOf(ck)) :
        /\ MDOf(ck)[i].Entries # NilEntries
        /\ SerializeMetadata(MDOf(ck)[i].Entries).err # NoErr

PrecOf(ck) ==
    IF ck[2] = "" THEN precedingUpdates.PubUpdates[<<ck[1], ck[3]>>]
    ELSE precedingUpdates.HashUpdates[ck]

DbOf(ck) ==
    IF ck[2] = "" THEN db.State[<<ck[1], ck[3]>>] ELSE db.ValueHash[ck]

AbsentEverywhere(ck) ==
    /\ PrecOf(ck).isNil
    /\ DbOf(ck).err = NoErr
    /\ DbOf(ck).vv.isNil

\* the latest known state of ck, defined where no read of it fails
LatestOf(ck) == IF ~PrecOf(ck).isNil THEN PrecOf(ck) ELSE DbOf(ck).vv

HasLatest(ck) ==
    \/ ~PrecOf(ck).isNil
    \/ DbOf(ck).err = NoErr /\ ~DbOf(ck).vv.isNil

PrecReads(ck) == {c \in lookups : c[1] \in {"PubUpdates.Get", "HashUpdates.Get"}
                                  /\ <<c[2], c[3], c[4]>> = ck}
DbReads(ck) == {c \in lookups : c[1] \in {"GetState", "GetValueHash"}
                                /\ <<c[2], c[3], c[4]>> = ck}
NoLookups(ck) == PrecReads(ck) = {} /\ DbReads(ck) = {}

\* the map as population leaves it
Populated == applyTxRwset(<<>>, rwset).ops

Succeeded == pc = "done" /\ ~result.isNil

(* ------------------------------ C1 ------------------------------------- *)

\* C1: if serializing the entries of some metadata write of the write set
\* fails, prepareTxOps returns the encoding error and no map.
C1_EncodingErrorAborts ==
    (pc = "done" /\ SerializationFails)
        => (result.isNil /\ result.err = EncodingError)

(* ------------------------------ C2 ------------------------------------- *)

MetadataBytes ==
    {SerializeMetadata(e).bytes : e \in EntriesSet \ {NilEntries, BadEntries}}
      \cup {v.Metadata : v \in VersionedValues}

\* C2: in the map a successful prepareTxOps returns, every entry that is not
\* a delete has a value, and its metadata is either metadata bytes (written
\* or carried forward) or the explicit 'no metadata'.
C2_Completeness ==
    Succeeded =>
        \A ck \in DOMAIN result.ops :
            ~isDelete(result.ops[ck]) =>
                /\ result.ops[ck].value # NilBytes
                /\ result.ops[ck].metadata \in MetadataBytes \cup {NilBytes}

C2_Witness ==
    /\ Succeeded
    /\ \E ck \in DOMAIN result.ops :
          /\ result.ops[ck].flag \in {{"metadataUpdate"}, {"metadataDelete"}}
          /\ DbReads(ck) # {}
    /\ \E ck \in DOMAIN result.ops :
          /\ isOnlyUpsert(result.ops[ck])
          /\ AbsentEverywhere(ck)

(* ------------------------------ C3 ------------------------------------- *)

MetadataOnlyWritten(ck) ==
    WritesMetadata(ck) /\ ~WritesValue(ck) /\ ~WritesDelete(ck)

\* C3: a key the transaction writes only metadata for, and that neither the
\* preceding updates nor the persisted state hold, has no entry in the
\* returned map.
C3_DropOnMissingValue ==
    Succeeded =>
        \A ck \in AllCKs :
            (MetadataOnlyWritten(ck) /\ AbsentEverywhere(ck))
                => ck \notin DOMAIN result.ops

C3_Witness ==
    /\ Succeeded
    /\ \E ck \in AllCKs :
          /\ MetadataOnlyWritten(ck)
          /\ AbsentEverywhere(ck)
          /\ ck \in DOMAIN Populated
          /\ DbReads(ck) # {}
          /\ ck \notin DOMAIN result.ops

(* ------------------------------ C4 ------------------------------------- *)

InBothAndDifferent(ck) ==
    /\ ~PrecOf(ck).isNil
    /\ DbOf(ck).err = NoErr
    /\ ~DbOf(ck).vv.isNil
    /\ DbOf(ck).vv # PrecOf(ck)

\* C4: for a key held with different contents by the preceding updates and
\* the persisted state, retrieveLatestState returns the preceding-updates
\* entry without reading the persisted state, and what is merged into the
\* key's entry of the returned map is the preceding-updates content.
C4_Precedence ==
    \A ck \in AllCKs :
        InBothAndDifferent(ck) =>
            /\ retrieveLatestState(ck[1], ck[2], ck[3], precedingUpdates, db).vv
                  = PrecOf(ck)
            /\ retrieveLatestState(ck[1], ck[2], ck[3], precedingUpdates, db).err
                  = NoErr
            /\ DbReads(ck) = {}
            /\ (Succeeded /\ ck \in DOMAIN result.ops
                  /\ ~skipsResolution(result.ops[ck])) =>
                  IF isOnlyUpsert(result.ops[ck])
                  THEN result.ops[ck].metadata = PrecOf(ck).Metadata
                  ELSE result.ops[ck].value = PrecOf(ck).Value

C4_Witness ==
    /\ Succeeded
    /\ \E ck \in AllCKs :
          /\ InBothAndDifferent(ck)
          /\ ck \in DOMAIN result.ops
          /\ ~skipsResolution(result.ops[ck])
          /\ PrecReads(ck) # {}

(* ------------------------------ C5 ------------------------------------- *)

FailedLookup ==
    \E ck \in AllCKs : DbReads(ck) # {} /\ DbOf(ck).err # NoErr

\* C5: once a read of the persisted state made during resolution has failed,
\* prepareTxOps has returned that error and no map; a returned error never
\* comes with a map.
C5_StorageFailureAtomic ==
    /\ FailedLookup =>
          (pc = "done" /\ result.isNil /\ result.ops = <<>>
             /\ result.err = StorageError)
    /\ (pc = "done" /\ result.err # NoErr) =>
          (result.isNil /\ result.ops = <<>>)

C5_Witness ==
    /\ FailedLookup
    /\ pc = "done"
    /\ txops # Populated

(* ------------------------------ C6 ------------------------------------- *)

\* C6: an entry that is a delete after population is never read for, never
\* changed and never removed by resolution, and is in the returned map as
\* the same delete, whatever the lookup sources hold.
C6_DeleteShortCircuit ==
    LET populated == Populated
    IN  \A ck \in DOMAIN populated :
            isDelete(populated[ck]) =>
                /\ NoLookups(ck)
                /\ pc # "start" =>
                      (ck \in DOMAIN txops /\ txops[ck] = populated[ck])
                /\ Succeeded =>
                      /\ ck \in DOMAIN result.ops
                      /\ result.ops[ck] = populated[ck]
                      /\ isDelete(result.ops[ck])

C6_Witness ==
    /\ Succeeded
    /\ \E ck \in DOMAIN result.ops :
          /\ isDelete(result.ops[ck])
          /\ ~PrecOf(ck).isNil
          /\ \E other \in DOMAIN Populated : other # ck /\ ~NoLookups(other)

(* ------------------------------ C7 ------------------------------------- *)

ValueAndMetadataWritten(ck) ==
    WritesValue(ck) /\ WritesMetadata(ck) /\ ~WritesDelete(ck)

\* C7: a key the transaction writes both a value and metadata for is never
\* looked up, and its entry in the returned map carries exactly the
\* transaction's value and metadata.
C7_OwnValueAndMetadataNoLookup ==
    \A ck \in AllCKs :
        ValueAndMetadataWritten(ck) =>
            /\ NoLookups(ck)
            /\ Succeeded =>
                  /\ ck \in DOMAIN result.ops
                  /\ result.ops[ck].value = TxValue(ck)
                  /\ result.ops[ck].metadata = TxMetadata(ck)

(* ------------------------------ C8 ------------------------------------- *)

\* the result as a function of the inputs alone, entry by entry
ExpectedResult ==
    LET populated == Populated
        needsResolution ==
            {ck \in DOMAIN populated : ~skipsResolution(populated[ck])}
    IN  IF \E ck \in needsResolution : PrecOf(ck).isNil /\ DbOf(ck).err # NoErr
        THEN [isNil |-> TRUE, ops |-> <<>>]
        ELSE [isNil |-> FALSE,
              ops |-> [ck \in {c \in DOMAIN populated :
                                  \/ c \notin needsResolution
                                  \/ isOnlyUpsert(populated[c])
                                  \/ ~LatestOf(c).isNil} |->
                         IF ck \notin needsResolution THEN populated[ck]
                         ELSE IF isOnlyUpsert(populated[ck])
                              THEN [populated[ck] EXCEPT
                                      !.metadata = LatestOf(ck).Metadata]
                              ELSE [populated[ck] EXCEPT
                                      !.value = LatestOf(ck).Value]]]

\* C8: whatever order the entries are traversed in, removals included, the
\* returned map is the one map the write set and the lookup sources determine.
C8_Determinism ==
    pc = "done" =>
        LET expected == ExpectedResult
        IN  /\ result.isNil = expected.isNil
            /\ result.ops = expected.ops

C8_Witness ==
    /\ Succeeded
    /\ LET populated == Populated
       IN  /\ Cardinality(DOMAIN populated) >= 2
           /\ DOMAIN result.ops # DOMAIN populated
           /\ \E ck \in DOMAIN result.ops : result.ops[ck] # populated[ck]

(* ------------------------------ C9 ------------------------------------- *)

ValueOnlyWritten(ck) ==
    WritesValue(ck) /\ ~WritesMetadata(ck) /\ ~WritesDelete(ck)

\* C9: a key the transaction writes only a value for has an entry in the
\* returned map, with the transaction's value and the metadata of the latest
\* known state, or no metadata when no source holds the key.
C9_ValueOnlyKeepsEntry ==
    Succeeded =>
        \A ck \in AllCKs :
            ValueOnlyWritten(ck) =>
                /\ ck \in DOMAIN result.ops
                /\ ~isDelete(result.ops[ck])
                /\ result.ops[ck].value = TxValue(ck)
                /\ result.ops[ck].metadata =
                      IF ~PrecOf(ck).isNil THEN PrecOf(ck).Metadata
                      ELSE IF ~DbOf(ck).vv.isNil THEN DbOf(ck).vv.Metadata
                      ELSE NilBytes

C9_Witness ==
    /\ Succeeded
    /\ \E ck \in AllCKs :
          /\ ValueOnlyWritten(ck)
          /\ AbsentEverywhere(ck)
          /\ DbReads(ck) # {}
          /\ ck \in DOMAIN result.ops
    /\ \E ck \in AllCKs :
          /\ ValueOnlyWritten(ck)
          /\ PrecOf(ck).isNil
          /\ ~DbOf(ck).vv.isNil
          /\ DbOf(ck).vv.Metadata # NilBytes
          /\ ck \in DOMAIN result.ops

(* ------------------------------ C10 ------------------------------------ *)

\* C10: a key the transaction writes only metadata for, and that a lookup
\* source holds, has an entry in the returned map with the value of the
\* latest known state and exactly the metadata the transaction wrote.
C10_MetadataOnlyAdoptsValue ==
    Succeeded =>
        \A ck \in AllCKs :
            (MetadataOnlyWritten(ck) /\ HasLatest(ck)) =>
                /\ ck \in DOMAIN result.ops
                /\ result.ops[ck].value = LatestOf(ck).Value
                /\ result.ops[ck].metadata = TxMetadata(ck)

\* without a serialization failure the statements of C1, C7 and C10 hold
NoFailure_C1_C7_C10 ==
    ~SerializationFails =>
        /\ C7_OwnValueAndMetadataNoLookup
        /\ C10_MetadataOnlyAdoptsValue
        /\ pc = "done" => (result.err # EncodingError)

====
